---- MODULE Spec2Model ----
(***************************************************************************)
(* Model of the ClawBank sweeper (bankskills/sweeper.py) and the wallet    *)
(* keystore it relies on (bankskills/wallet.py).                           *)
(*                                                                         *)
(* The program is single-threaded: one exposed operation runs at a time.   *)
(* buy_token is modelled in steps (preconditions, one step per V3 fee-tier *)
(* iteration, the V4 fallback); every other operation is one step.  The    *)
(* chain node, the file system and the key store are the environment:      *)
(* each call into them either succeeds or raises, chosen with \E.          *)
(*                                                                         *)
(* Spec runs the operations; SpecConfig reads a sweep.config written by    *)
(* hand; SpecAddress and SpecNative apply _validate_address and            *)
(* _is_native_eth to strings, character by character; SpecReport formats   *)
(* the amount a swap reports; SpecLedger writes a ledger line and parses   *)
(* it back; SpecWallet runs the wallet operations with several keys;       *)
(* SpecTransfer runs send_money of core/bank/transfer.py step by step.     *)
(*                                                                         *)
(* Units: native amounts are counted in units of 0.0005 ETH, token amounts *)
(* in raw units of the token.                                              *)
(***************************************************************************)
EXTENDS Integers, Sequences, FiniteSets, TLC

(* ------------------------------ bounds --------------------------------- *)
MaxCalls == 1        \* buy_token calls that get past their preconditions
MaxAmount == 1       \* largest requested amount (inputs range over -1..MaxAmount)
MaxDelta == 1        \* largest token amount one mined swap delivers
MaxRaises == 1       \* environment calls that raise during one buy_token call
MaxLines == 12       \* lines of a sweep.config written by hand
MaxOff == 1          \* digits an address string is short of, or beyond, 40
MaxJunk == 1         \* lines of it that are neither key=value nor ledger lines

(* ------------------------- program constants --------------------------- *)
GAS_RESERVE_ETH == 2     \* 0.001 ETH in units of 0.0005 ETH
RECENT_SWEEPS == 10      \* recent_sweeps[-10:]
fee_tiers == <<500, 3000, 10000>>

ClawHex == "16332535e2c27da578bc2e82beb09ce9d3c8eb07"
TestHex == "abc1234567890123456789012345678901234567"
Hexes == {ClawHex, TestHex}

(* An address string is its 40 hex digits plus the form it is written in:  *)
(* "lower" (0x + lower-case digits), "checksum" (EIP-55 mixed case) or     *)
(* "malformed" (not 0x + 40 hex digits).                                   *)
Forms == {"lower", "checksum", "malformed"}
AddressInputs == [hex : Hexes, form : Forms]
NoAddr == [hex |-> "", form |-> "none"]      \* Python None

CLAWBANK_ADDRESS == [hex |-> ClawHex, form |-> "checksum"]

(* re.match with a pattern ending in `$` (line 89) also accepts an address *)
(* followed by one newline: the form "newline" (see ValidateString).       *)
_validate_address(addr) == addr.form \in {"lower", "checksum", "newline"}

checksum(addr) == [addr EXCEPT !.form = "checksum"]

lower(addr) == [addr EXCEPT !.form = "lower"]

(* What the token contracts answer when the call succeeds.                 *)
SymbolOf(hex) == IF hex = ClawHex THEN "CLAW" ELSE "TEST"

DecimalsOf(hex) == 18

(* ------------------------------- state --------------------------------- *)
VARIABLES
    keystore,    \* wallet.json: NoKey or the key it holds
    file,        \* sweep.config: [exists, lines]
    tokenBal,    \* the wallet's balance of each token on chain (raw units)
    pc,          \* position inside buy_token: idle, v3, v4, done
    call,        \* locals of the running / last buy_token call
    attempts,    \* the swap attempts of the running / last operation, in order
    file0,       \* sweep.config as it was when the running operation began
    nCalls,      \* buy_token calls that reached the swap routes
    nSuccess,    \* buy_token calls that returned a result
    inp,         \* the arguments and environment answers of the running operation
    ret          \* what the running operation returned or raised

vars == <<keystore, file, tokenBal, pc, call, attempts, file0, nCalls, nSuccess, inp, ret>>

NoKey == "none"
Keys == {"k1"}

NoCall == [amount_eth |-> 0, balance_eth |-> 0, target |-> NoAddr, decimals |-> 0,
           symbol |-> "", balance_before |-> 0, tier |-> 0]

NoFile == [exists |-> FALSE, lines |-> <<>>]

Init ==
    /\ keystore = NoKey
    /\ file = NoFile
    /\ tokenBal = [h \in Hexes |-> 0]
    /\ pc = "idle"
    /\ call = NoCall
    /\ attempts = <<>>
    /\ file0 = NoFile
    /\ nCalls = 0
    /\ nSuccess = 0
    /\ inp = [op |-> "none"]
    /\ ret = [op |-> "none", kind |-> "result"]

(* ------------------------- sweep.config lines -------------------------- *)
KvLine(k, v) == [kind |-> "kv", k |-> k, v |-> v]

LedgerLine(ts, amount_eth, amount_out, decimals, symbol, tx_hash) ==
    [kind |-> "ledger", ts |-> ts,
     spent |-> [amount |-> amount_eth, sym |-> "ETH"],
     bought |-> [raw |-> amount_out, decimals |-> decimals, sym |-> symbol],
     tx |-> tx_hash]

IsLedger(line) == line.kind = "ledger"

LedgerLines(f) == SelectSeq(f.lines, IsLedger)

Error(op, msg) == [op |-> op, kind |-> "error", err |-> msg]

Result(op, fields) == [op |-> op, kind |-> "result", val |-> fields]

(* ---------------------------- wallet.py -------------------------------- *)
(* The password the keystore is encrypted with when the environment names  *)
(* none.                                                                   *)
DEFAULT_PASSWORD == "clawbank-default"

(* The address Account.from_key derives from a key: one way, so the        *)
(* address tells nothing of the key.                                       *)
KeyPairs ==
    {[key |-> "k1", hex |-> "f39fd6e51aad88f6f4ce6ab8827279cfffb92266"],
     [key |-> "k2", hex |-> "70997970c51812dc3a010c7d01b50e0d17dc79c8"],
     [key |-> "k3", hex |-> "3c44cdddb6a900fa2b585dd299e03d12fa4293bc"],
     [key |-> "k4", hex |-> "90f79bf6eb2c4f870365e785982e1f101e93b906"],
     [key |-> "k5", hex |-> "15d34aaf54267db7d7c367839aaf71a00a2c6a65"],
     [key |-> "k6", hex |-> "9965507d1a55bcc2695c58ba16fb37d819b0a4dc"],
     [key |-> "k7", hex |-> "976ea74026e726554db657fa54763abd0c3a0aa9"],
     [key |-> "k8", hex |-> "14dc79964da2c08b23698b3d3cc7ca32193d9955"]}

DerivedHex(key) ==
    IF \E p \in KeyPairs : p.key = key
    THEN (CHOOSE p \in KeyPairs : p.key = key).hex
    ELSE ""

(* Variant: the address field carries the key itself.                      *)
AddressOf_Key(key) == [hex |-> key, form |-> "checksum"]

AddressOf(key) == [hex |-> DerivedHex(key), form |-> "checksum"]

(* create_wallet: a no-op returning the stored address when wallet.json    *)
(* exists, else a fresh random key is encrypted and written.               *)
StoredKey_Overwrite(existing, key) == key

(* Lines 39-42 against 47-53: the key wallet.json holds after the call.    *)
StoredKey(existing, key) == IF existing # NoKey THEN existing ELSE key

create_wallet(key) ==
    /\ pc = "idle"
    /\ keystore' = StoredKey(keystore, key)
    /\ inp' = [op |-> "create_wallet", key |-> key]
    /\ ret' = Result("create_wallet", [address |-> AddressOf(keystore')])
    /\ pc' = "done"
    /\ UNCHANGED <<file, tokenBal, call, attempts, file0, nCalls, nSuccess>>

(* get_wallet: the stored address and the native balance the node reports; *)
(* raises without a wallet, and when the balance read raises.              *)
get_wallet(balance_eth, fault) ==
    /\ pc = "idle"
    /\ inp' = [op |-> "get_wallet", fault |-> fault]
    /\ ret' = IF keystore = NoKey
              THEN Error("get_wallet", "Wallet does not exist")
              ELSE IF fault # "none"
              THEN Error("get_wallet", fault)
              ELSE Result("get_wallet", [address |-> AddressOf(keystore),
                                         eth_balance |-> balance_eth])
    /\ pc' = "done"
    /\ UNCHANGED <<keystore, file, tokenBal, call, attempts, file0, nCalls, nSuccess>>

(* export_private_key: load_private_key, then the key, its address and a   *)
(* warning.                                                                *)
export_private_key(fault) ==
    /\ pc = "idle"
    /\ inp' = [op |-> "export_private_key", fault |-> fault]
    /\ ret' = IF keystore = NoKey
              THEN Error("export_private_key", "Wallet does not exist")
              ELSE IF fault # "none"
              THEN Error("export_private_key", "Failed to decrypt wallet")
              ELSE Result("export_private_key",
                          [private_key |-> keystore, address |-> AddressOf(keystore),
                           warning |-> "Do not share this key"])
    /\ pc' = "done"
    /\ UNCHANGED <<keystore, file, tokenBal, call, attempts, file0, nCalls, nSuccess>>

(* ------------------------ set_target_token ----------------------------- *)
(* Variant: the header lines are appended (mode "a") to what is there.     *)
SetTargetContent_Append(old, addr) ==
    [exists |-> TRUE,
     lines |-> old.lines \o <<KvLine("target", addr), KvLine("network", "base")>>]

(* open(SWEEP_CONFIG_PATH, "w"): the file becomes the two header lines.    *)
SetTargetContent(old, addr) ==
    [exists |-> TRUE,
     lines |-> <<KvLine("target", addr), KvLine("network", "base")>>]

(* Variant: the write does not wait for symbol().                          *)
SetTargetCommits_NoSymbol(token_address, symbolOk) == _validate_address(token_address)

(* The write is reached only past the format check and the symbol() call.  *)
SetTargetCommits(token_address, symbolOk) ==
    _validate_address(token_address) /\ symbolOk

set_target_token(token_address, symbolOk) ==
    /\ pc = "idle"
    /\ inp' = [op |-> "set_target_token", token_address |-> token_address,
               symbolOk |-> symbolOk]
    /\ LET addr == checksum(token_address) IN
         /\ file' = IF SetTargetCommits(token_address, symbolOk)
                    THEN SetTargetContent(file, addr)
                    ELSE file
         /\ ret' = IF ~_validate_address(token_address)
                   THEN Error("set_target_token", "Invalid token address")
                   ELSE IF ~symbolOk
                   THEN Error("set_target_token", "Invalid token at")
                   ELSE Result("set_target_token",
                               [status |-> "ok", token_address |-> addr,
                                token_symbol |-> SymbolOf(addr.hex)])
    /\ pc' = "done"
    /\ UNCHANGED <<keystore, tokenBal, call, attempts, file0, nCalls, nSuccess>>

(* ------------------------- get_sweep_config ---------------------------- *)
NoSymbol == "<null>"

(* Variant: the parser gives up at a line it cannot read.                  *)
RECURSIVE LastValue_StopsAtJunk(_, _, _)
LastValue_StopsAtJunk(lines, key, default) ==
    IF lines = <<>> THEN default
    ELSE LET l == lines[Len(lines)] IN
         IF l.kind = "kv" /\ l.k = key THEN l.v
         ELSE IF l.kind \notin {"kv", "ledger"} THEN default
         ELSE LastValue_StopsAtJunk(SubSeq(lines, 1, Len(lines) - 1), key, default)

(* The value of the last `key=` line, or the default when there is none.   *)
RECURSIVE LastValue(_, _, _)
LastValue(lines, key, default) ==
    IF lines = <<>> THEN default
    ELSE LET l == lines[Len(lines)] IN
         IF l.kind = "kv" /\ l.k = key THEN l.v
         ELSE LastValue(SubSeq(lines, 1, Len(lines) - 1), key, default)

SweepEntry(line) ==
    [timestamp |-> line.ts, spent |-> line.spent, bought |-> line.bought,
     tx_hash |-> line.tx]

(* Variant: recent_sweeps[:10], the head instead of the tail.              *)
LastN_First(seq, n) ==
    IF Len(seq) <= n THEN seq ELSE SubSeq(seq, 1, n)

LastN(seq, n) ==
    IF Len(seq) <= n THEN seq ELSE SubSeq(seq, Len(seq) - n + 1, Len(seq))

ParseConfig(f, symbolOk) ==
    IF ~f.exists
    THEN [target_token |-> NoAddr, token_symbol |-> NoSymbol,
          network |-> "base", recent_sweeps |-> <<>>]
    ELSE LET target == LastValue(f.lines, "target", NoAddr)
             sweeps == LedgerLines(f)
         IN [target_token |-> IF target = NoAddr THEN NoAddr ELSE checksum(target),
             token_symbol |-> IF target # NoAddr /\ symbolOk
                              THEN SymbolOf(target.hex) ELSE NoSymbol,
             network |-> LastValue(f.lines, "network", "base"),
             recent_sweeps |->
                 LastN([i \in 1..Len(sweeps) |-> SweepEntry(sweeps[i])],
                       RECENT_SWEEPS)]

(* Variant: a symbol() that raises makes the operation raise.              *)
ConfigOutcome_SymbolRaises(f, symbolOk) ==
    IF ParseConfig(f, TRUE).target_token # NoAddr /\ ~symbolOk
    THEN Error("get_sweep_config", "symbol")
    ELSE Result("get_sweep_config", ParseConfig(f, symbolOk))

(* Lines 183-203: the symbol() call sits in try/except Exception: pass.    *)
ConfigOutcome(f, symbolOk) == Result("get_sweep_config", ParseConfig(f, symbolOk))

get_sweep_config(symbolOk) ==
    /\ pc = "idle"
    /\ inp' = [op |-> "get_sweep_config", symbolOk |-> symbolOk]
    /\ ret' = ConfigOutcome(file, symbolOk)
    /\ pc' = "done"
    /\ UNCHANGED <<keystore, file, tokenBal, call, attempts, file0, nCalls, nSuccess>>

(* ----------------------------- buy_token ------------------------------- *)
Amounts == -1..MaxAmount
EthBalances == 0..(MaxAmount + GAS_RESERVE_ETH)   \* up to what the largest amount needs
Deltas == 1..MaxDelta
Statuses == {0, 1}                       \* receipt["status"]

(* The step of a swap attempt that raises, or "none".                      *)
V3Faults == {"build", "estimate", "sign", "send", "wait", "balance", "write", "none"}
V4Faults == {"build", "sign", "send", "wait", "balance", "write", "none"}
StartFaults == {"get_wallet", "load_private_key", "token_info", "none"}

(* Variant: a transaction goes out although gas estimation failed.         *)
Submitted_Unestimated(fault) == fault \in {"estimate", "wait", "balance", "write", "none"}

(* send_raw_transaction returned: the transaction is on its way.           *)
Submitted(fault) == fault \in {"wait", "balance", "write", "none"}

(* wait_for_transaction_receipt returned a receipt.                        *)
HasReceipt(fault) == fault \in {"balance", "write", "none"}

(* Variant: the receipt status is not looked at.                           *)
ReceiptOk_Ignored(status) == TRUE

(* receipt["status"] != 1 is the failure test of both routes.              *)
ReceiptOk(status) == status = 1

ReceiptName(status) == IF status = 1 THEN "success" ELSE "failed"

(* Variant: a reverted transaction ends Route A, as it ends Route B.       *)
V3OnFailure_RevertRaises(kind) == IF kind = "reverted" THEN "raise" ELSE "continue"

(* What Route A does about a tier that did not work: line 397 and the      *)
(* `except Exception` of line 416 both `continue`.                         *)
V3OnFailure(kind) == "continue"

(* Variant: the fallback is taken for every target.                        *)
UseFallback_Any(target) == TRUE

(* if target.lower() == CLAWBANK_ADDRESS.lower()                           *)
UseFallback(target) == lower(target) = lower(CLAWBANK_ADDRESS)

(* The steps whose failure is an exception raised by the environment; a   *)
(* failed gas estimation and a reverted transaction are ordinary answers.  *)
RaiseFaults == {"build", "sign", "send", "wait", "balance", "write"}

(* The stage of an attempt a fault belongs to: signing and sending are the *)
(* submission, reading the balance and writing the ledger the recording.   *)
Stage(fault) ==
    IF fault \in {"sign", "send"} THEN "submit"
    ELSE IF fault \in {"balance", "write"} THEN "record"
    ELSE fault

RaiseStages == {Stage(f) : f \in RaiseFaults}

NumRaises(as) == Cardinality({i \in 1..Len(as) : as[i].fault \in RaiseStages})

NumSubmitted(as) == Cardinality({i \in 1..Len(as) : as[i].tx # 0})

(* The record of one attempt: the stage that stopped it ("reverted" for a  *)
(* receipt whose status is not 1), the transaction it submitted (0 for     *)
(* none), the receipt the program saw and whether the swap was mined.      *)
Attempt(route, fee, fault, status, n) ==
    [route |-> route, fee |-> fee,
     fault |-> IF HasReceipt(fault) /\ status # 1 THEN "reverted" ELSE Stage(fault),
     tx |-> IF Submitted(fault) THEN n ELSE 0,
     receipt |-> IF HasReceipt(fault) THEN ReceiptName(status) ELSE "none",
     mined |-> Submitted(fault) /\ status = 1]

(* The chain after the attempt: a mined swap delivers delta tokens.        *)
BalAfter(bal, target, fault, status, delta) ==
    IF Submitted(fault) /\ status = 1
    THEN [bal EXCEPT ![target.hex] = @ + delta]
    ELSE bal

SwapResult(tx_hash, amount_eth, amount_out, decimals, symbol) ==
    Result("buy_token",
           [tx_hash |-> tx_hash,
            amount_in |-> [amount |-> amount_eth, sym |-> "ETH"],
            amount_out |-> [raw |-> amount_out, decimals |-> decimals, sym |-> symbol],
            status |-> "confirmed"])

Raised(fault) == Error("buy_token", fault)

(* Variant: the balance check comes before the amount check.               *)
BuyPrecondition_BalanceFirst(target, amount_eth, balance_eth, fault) ==
    IF target = NoAddr THEN "No target token set"
    ELSE IF keystore = NoKey THEN "Wallet does not exist"
    ELSE IF fault = "get_wallet" THEN "get_wallet"
    ELSE IF amount_eth > balance_eth - GAS_RESERVE_ETH THEN "Insufficient balance"
    ELSE IF amount_eth <= 0 THEN "Amount must be greater than zero"
    ELSE IF fault = "load_private_key" THEN "Failed to decrypt wallet"
    ELSE IF fault = "token_info" THEN "token_info"
    ELSE ""

(* Variant: the gas reserve is left out of the balance check.              *)
BuyPrecondition_NoReserve(target, amount_eth, balance_eth, fault) ==
    IF target = NoAddr THEN "No target token set"
    ELSE IF keystore = NoKey THEN "Wallet does not exist"
    ELSE IF fault = "get_wallet" THEN "get_wallet"
    ELSE IF amount_eth <= 0 THEN "Amount must be greater than zero"
    ELSE IF amount_eth > balance_eth THEN "Insufficient balance"
    ELSE IF fault = "load_private_key" THEN "Failed to decrypt wallet"
    ELSE IF fault = "token_info" THEN "token_info"
    ELSE ""

(* Lines 442-471: what buy_token raises before Route A, "" when nothing:   *)
(* the target check, get_wallet (which raises without a wallet or when the *)
(* balance cannot be read), the amount check, the balance check,           *)
(* load_private_key and the reads of decimals, symbol and balanceOf.       *)
BuyPrecondition(target, amount_eth, balance_eth, fault) ==
    IF target = NoAddr THEN "No target token set"
    ELSE IF keystore = NoKey THEN "Wallet does not exist"
    ELSE IF fault = "get_wallet" THEN "get_wallet"
    ELSE IF amount_eth <= 0 THEN "Amount must be greater than zero"
    ELSE IF amount_eth > balance_eth - GAS_RESERVE_ETH THEN "Insufficient balance"
    ELSE IF fault = "load_private_key" THEN "Failed to decrypt wallet"
    ELSE IF fault = "token_info" THEN "token_info"
    ELSE ""

(* Lines 442-471: the preconditions and the token reads before Route A.    *)
BuyStart(amount_eth, balance_eth, fault) ==
    /\ pc = "idle"
    /\ nCalls < MaxCalls
    /\ LET target == ParseConfig(file, TRUE).target_token
           err == BuyPrecondition(target, amount_eth, balance_eth, fault)
       IN IF err # ""
          THEN /\ ret' = Error("buy_token", err)
               /\ inp' = [op |-> "buy_token", amount_eth |-> amount_eth,
                          balance_eth |-> balance_eth, fault |-> fault]
               /\ pc' = "done"
               /\ UNCHANGED <<call, nCalls>>
          ELSE /\ ret' = [op |-> "buy_token", kind |-> "running"]
               /\ inp' = [op |-> "buy_token", amount_eth |-> amount_eth]
               /\ pc' = "v3"
               /\ nCalls' = nCalls + 1
               /\ call' = [amount_eth |-> amount_eth, balance_eth |-> balance_eth,
                           target |-> checksum(target),
                           decimals |-> DecimalsOf(target.hex),
                           symbol |-> SymbolOf(target.hex),
                           balance_before |-> tokenBal[target.hex],
                           tier |-> 1]
    /\ UNCHANGED <<keystore, file, tokenBal, attempts, file0, nSuccess>>

(* Lines 337-421 and 475-488: one iteration of the fee-tier loop; after    *)
(* the last tier, the choice between Route B and the liquidity error.      *)
V3Tier(fault, status, delta) ==
    /\ pc = "v3"
    /\ fault \in RaiseFaults => NumRaises(attempts) < MaxRaises
    /\ LET n == NumSubmitted(attempts) + 1
           tx_hash == [call |-> nCalls, seq |-> n]
           bal == BalAfter(tokenBal, call.target, fault, status, delta)
           done == fault = "none" /\ ReceiptOk(status)
           kind == IF HasReceipt(fault) /\ ~ReceiptOk(status) THEN "reverted" ELSE fault
           amount_out == bal[call.target.hex] - call.balance_before
       IN /\ attempts' = Append(attempts, Attempt("A", fee_tiers[call.tier], fault, status, n))
          /\ tokenBal' = bal
          /\ IF done
             THEN /\ file' = [file EXCEPT !.exists = TRUE, !.lines =
                       Append(@, LedgerLine(nCalls, call.amount_eth, amount_out,
                                            call.decimals, call.symbol, tx_hash))]
                  /\ ret' = SwapResult(tx_hash, call.amount_eth, amount_out,
                                       call.decimals, call.symbol)
                  /\ pc' = "done"
                  /\ nSuccess' = nSuccess + 1
                  /\ UNCHANGED call
             ELSE /\ UNCHANGED <<file, nSuccess>>
                  /\ IF V3OnFailure(kind) # "continue"
                     THEN /\ ret' = Raised(kind)
                          /\ pc' = "done"
                          /\ UNCHANGED call
                     ELSE IF call.tier < Len(fee_tiers)
                     THEN /\ call' = [call EXCEPT !.tier = @ + 1]
                          /\ UNCHANGED <<pc, ret>>
                     ELSE IF UseFallback(call.target)
                     THEN /\ pc' = "v4"
                          /\ UNCHANGED <<call, ret>>
                     ELSE /\ ret' = Error("buy_token", "No liquidity pool found")
                          /\ pc' = "done"
                          /\ UNCHANGED call
    /\ UNCHANGED <<keystore, file0, nCalls, inp>>

(* Lines 247-315: Route B, a single attempt; every failure is raised.      *)
V4Swap(fault, status, delta) ==
    /\ pc = "v4"
    /\ fault \in RaiseFaults => NumRaises(attempts) < MaxRaises
    /\ LET n == NumSubmitted(attempts) + 1
           tx_hash == [call |-> nCalls, seq |-> n]
           bal == BalAfter(tokenBal, call.target, fault, status, delta)
           amount_out == bal[call.target.hex] - call.balance_before
       IN /\ attempts' = Append(attempts, Attempt("B", 0, fault, status, n))
          /\ tokenBal' = bal
          /\ pc' = "done"
          /\ UNCHANGED call
          /\ IF HasReceipt(fault) /\ ~ReceiptOk(status)
             THEN /\ ret' = Error("buy_token", "Transaction failed")
                  /\ UNCHANGED <<file, nSuccess>>
             ELSE IF fault # "none"
             THEN /\ ret' = Raised(fault)
                  /\ UNCHANGED <<file, nSuccess>>
             ELSE /\ file' = [file EXCEPT !.exists = TRUE, !.lines =
                       Append(@, LedgerLine(nCalls, call.amount_eth, amount_out,
                                            call.decimals, call.symbol, tx_hash))]
                  /\ ret' = SwapResult(tx_hash, call.amount_eth, amount_out,
                                       call.decimals, call.symbol)
                  /\ nSuccess' = nSuccess + 1
    /\ UNCHANGED <<keystore, file0, nCalls, inp>>

(* ------------------------- get_token_balance --------------------------- *)
BalanceFaults == {"get_wallet", "token_info", "none"}

get_token_balance(token_address, fault) ==
    /\ pc = "idle"
    /\ inp' = [op |-> "get_token_balance", token_address |-> token_address,
               fault |-> fault]
    /\ ret' = IF ~_validate_address(token_address)
              THEN Error("get_token_balance", "Invalid token address")
              ELSE IF keystore = NoKey
              THEN Error("get_token_balance", "Wallet does not exist")
              ELSE IF fault # "none"
              THEN Error("get_token_balance", fault)
              ELSE Result("get_token_balance",
                          [token_address |-> checksum(token_address),
                           symbol |-> SymbolOf(token_address.hex),
                           balance |-> [raw |-> tokenBal[token_address.hex],
                                        decimals |-> DecimalsOf(token_address.hex)],
                           raw_balance |-> tokenBal[token_address.hex]])
    /\ pc' = "done"
    /\ UNCHANGED <<keystore, file, tokenBal, call, attempts, file0, nCalls, nSuccess>>

(* ----------------------------- send_token ------------------------------ *)
(* "ETH", "native" and the zero address stand for the native currency.     *)
ZeroHex == "0000000000000000000000000000000000000000"
NativeArgs == {[hex |-> "eth", form |-> "word"], [hex |-> ZeroHex, form |-> "lower"]}
TokenArgs == NativeArgs \cup {[hex |-> ClawHex, form |-> "lower"],
                                [hex |-> TestHex, form |-> "checksum"],
                                [hex |-> TestHex, form |-> "malformed"]}

_is_native_eth(addr) == addr.form = "word" \/ addr.hex = ZeroHex

SendFaults == {"checksum", "get_wallet", "load_private_key", "token_info", "symbol",
               "build", "estimate", "sign", "send", "wait", "none"}

(* The first check of send_token that fails, or "" when the transaction is *)
(* built.  amount is the amount in raw units of the token sent; gasOk says *)
(* whether the native balance the node reports covers the checks made.     *)
(* Web3.to_checksum_address (line 510) is library code: given an address   *)
(* with a trailing newline it either raises (fault "checksum") or returns. *)
SendError(token_address, to_address, amount, gasOk, fault) ==
    IF amount <= 0 THEN "Amount must be greater than zero"
    ELSE IF ~_validate_address(to_address) THEN "Invalid recipient address"
    ELSE IF to_address.form = "newline" /\ fault = "checksum" THEN fault
    ELSE IF keystore = NoKey THEN "Wallet does not exist"
    ELSE IF fault \in {"get_wallet", "load_private_key"} THEN fault
    ELSE IF _is_native_eth(token_address)
    THEN IF fault = "build" THEN fault
         ELSE IF ~gasOk THEN "Insufficient ETH"
         ELSE ""
    ELSE IF ~_validate_address(token_address) THEN "Invalid token address"
    ELSE IF fault = "token_info" THEN fault
    ELSE IF amount > tokenBal[token_address.hex]
    THEN IF fault = "symbol" THEN fault ELSE "Insufficient token balance"
    ELSE IF fault \in {"build", "estimate"} THEN fault
    ELSE IF ~gasOk THEN "Insufficient ETH for gas"
    ELSE ""

send_token(token_address, to_address, amount, gasOk, fault, status) ==
    /\ pc = "idle"
    /\ pc' = "done"
    /\ inp' = [op |-> "send_token", token_address |-> token_address,
               to_address |-> to_address, amount |-> amount]
    /\ LET err == SendError(token_address, to_address, amount, gasOk, fault)
           f == IF fault \in {"sign", "send", "wait"} THEN fault ELSE "none"
           mined == Submitted(f) /\ status = 1
       IN IF err # ""
          THEN /\ ret' = Error("send_token", err)
               /\ UNCHANGED <<attempts, tokenBal>>
          ELSE /\ attempts' = <<Attempt("send", 0, f, status, 1)>>
               /\ tokenBal' = IF mined /\ ~_is_native_eth(token_address)
                              THEN [tokenBal EXCEPT ![token_address.hex] = @ - amount]
                              ELSE tokenBal
               /\ ret' = IF f # "none" THEN Error("send_token", f)
                         ELSE IF ~ReceiptOk(status)
                         THEN Error("send_token", "Transaction failed")
                         ELSE Result("send_token",
                                     [tx_hash |-> [call |-> 0, seq |-> 1],
                                      status |-> "confirmed"])
    /\ UNCHANGED <<keystore, file, call, file0, nCalls, nSuccess>>

(* ----------------------------- MCP tools ------------------------------- *)
(* The class of the exception behind an error: the sweeper's and the       *)
(* wallet's own errors, and whatever a library, the node or the file       *)
(* system raises.                                                          *)
SweeperErrors == {"Invalid token address", "Invalid token at", "No target token set",
                  "Amount must be greater than zero", "Insufficient balance",
                  "No liquidity pool found", "Transaction failed",
                  "Invalid recipient address", "Insufficient ETH",
                  "Insufficient token balance", "Insufficient ETH for gas"}

WalletErrors == {"Wallet does not exist", "Failed to decrypt wallet", "load_private_key"}

ExceptionClass(msg) ==
    IF msg \in SweeperErrors THEN "SweeperError"
    ELSE IF msg \in WalletErrors THEN "WalletError"
    ELSE "Exception"

(* Variant: the tools catch the sweeper's own error class only.            *)
Catches_SweeperErrorOnly(cls) == cls = "SweeperError"

(* `except Exception as e`: every class above derives from Exception.      *)
Catches(cls) == cls \in {"SweeperError", "WalletError", "Exception"}

(* What the MCP tool wrapped around a core operation hands to its caller:  *)
(* {"success": True, **result}, {"success": False, "error": str(e)}, or    *)
(* the exception itself when the tool does not catch it.                   *)
McpTool(r) ==
    IF r.kind = "result" THEN [success |-> TRUE, payload |-> r.val]
    ELSE IF Catches(ExceptionClass(r.err)) THEN [success |-> FALSE, error |-> r.err]
    ELSE [raised |-> r.err]

(* --------------------------- specification ----------------------------- *)
NoRet == [op |-> "none", kind |-> "result"]

(* The operation has returned or raised: control is back with the caller,  *)
(* which is free to start the next operation.                              *)
Return ==
    /\ pc = "done"
    /\ pc' = "idle"
    /\ ret' = NoRet
    /\ inp' = [op |-> "none"]
    /\ attempts' = <<>>
    /\ call' = NoCall
    /\ file0' = file
    /\ UNCHANGED <<keystore, file, tokenBal, nCalls, nSuccess>>

(* A status exists only for a submitted transaction, a delta only for a    *)
(* mined one.                                                              *)
StatusesFor(fault) == IF Submitted(fault) THEN Statuses ELSE {0}

Recipients == {[hex |-> TestHex, form |-> "lower"], [hex |-> TestHex, form |-> "malformed"],
               [hex |-> TestHex, form |-> "newline"]}

(* The amounts asked of send_token: none, and for a token the whole        *)
(* balance held and one unit more than it.                                 *)
SendAmounts(t) ==
    IF _is_native_eth(t) \/ ~_validate_address(t)
    THEN {-1, 0, 1}
    ELSE {-1, 0, tokenBal[t.hex], tokenBal[t.hex] + 1}

(* The inputs of send_token, without the combinations that differ only in  *)
(* an answer the call never asks for.                                      *)
SendInputs ==
    UNION {{x \in [t : {t}, to : Recipients, amt : SendAmounts(t), g : BOOLEAN,
                    f : SendFaults, st : Statuses] :
        /\ x.st = 1 => (x.g /\ x.f \in {"wait", "none"})
        /\ ~x.g => x.f \in {"sign", "send", "wait", "none"}
        /\ x.amt <= 0 => (x.t.form = "word" /\ x.to.form = "lower" /\ x.g /\ x.f = "none")
        /\ x.to.form = "malformed" => (x.t.form = "word" /\ x.amt = 1 /\ x.g /\ x.f = "none")
        /\ x.to.form = "newline" =>
               (x.t.form = "word" /\ x.amt = 1 /\ x.g /\ x.f \in {"checksum", "none"})
        /\ x.f = "checksum" => x.to.form = "newline"
        /\ x.f \in {"get_wallet", "load_private_key"} => (x.t.form = "word" /\ x.amt = 1)
        /\ _is_native_eth(x.t) => x.f \notin {"token_info", "symbol", "estimate"}
        /\ x.t.form = "malformed" => (x.amt = 1 /\ x.g /\ x.f = "none")} : t \in TokenArgs}

(* The inputs of get_wallet, likewise.                                     *)
WalletInputs ==
    {x \in [bal : EthBalances, f : {"get_wallet", "none"}] :
        x.f # "none" => x.bal = 0}

(* The inputs of get_token_balance, likewise.                              *)
BalanceInputs ==
    {x \in [a : AddressInputs, f : BalanceFaults] :
        x.f # "none" => x.a = CLAWBANK_ADDRESS}

(* The inputs of buy_token, likewise.                                      *)
BuyInputs ==
    {x \in [amt : Amounts, bal : EthBalances, f : StartFaults] :
        /\ x.f = "get_wallet" => (x.amt = 1 /\ x.bal = 0)
        /\ x.amt <= 0 => (x.bal = 0 /\ x.f \in {"get_wallet", "none"})}

DeltasFor(fault, status) == IF Submitted(fault) /\ status = 1 THEN Deltas ELSE {1}

Next ==
    \/ \E key \in Keys : create_wallet(key)
    \/ \E x \in WalletInputs : get_wallet(x.bal, x.f)
    \/ \E f \in {"load_private_key", "none"} : export_private_key(f)
    \/ \E a \in AddressInputs, ok \in BOOLEAN : set_target_token(a, ok)
    \/ \E ok \in BOOLEAN : get_sweep_config(ok)
    \/ \E x \in BalanceInputs : get_token_balance(x.a, x.f)
    \/ pc = "idle" /\ \E x \in SendInputs : send_token(x.t, x.to, x.amt, x.g, x.f, x.st)
    \/ \E x \in BuyInputs : BuyStart(x.amt, x.bal, x.f)
    \/ \E f \in V3Faults : \E st \in StatusesFor(f) : \E d \in DeltasFor(f, st) :
           V3Tier(f, st, d)
    \/ \E f \in V4Faults : \E st \in StatusesFor(f) : \E d \in DeltasFor(f, st) :
           V4Swap(f, st, d)
    \/ Return

Spec == Init /\ [][Next]_vars

(* ------------------- sweep.config written by hand ---------------------- *)
(* The file is plain text its owner may edit: the parser of                *)
(* get_sweep_config meets blank lines, comments and lines of neither       *)
(* grammar, and more ledger lines than it reports.                         *)
JunkKinds == {"blank", "comment", "junk"}

IsJunk(line) == line.kind \in JunkKinds

(* The ledger line a hand-written file holds at position n.                *)
HandLedgerLine(n) == LedgerLine(n, 1, n, 18, "CLAW", [call |-> 0, seq |-> n])

HeaderFiles ==
    {[exists |-> TRUE, lines |-> <<>>]}
        \cup {SetTargetContent(NoFile, checksum(a)) : a \in [hex : Hexes, form : {"lower"}]}

InitConfig ==
    /\ keystore = NoKey
    /\ file \in HeaderFiles
    /\ file0 = file
    /\ tokenBal = [h \in Hexes |-> 0]
    /\ pc = "idle"
    /\ call = NoCall
    /\ attempts = <<>>
    /\ nCalls = 0
    /\ nSuccess = 0
    /\ inp = [op |-> "none"]
    /\ ret = NoRet

(* One more line at the end of the file.                                   *)
WriteLine(line) ==
    /\ pc = "idle"
    /\ Len(file.lines) < MaxLines
    /\ IsJunk(line) => Len(SelectSeq(file.lines, IsJunk)) < MaxJunk
    /\ file' = [file EXCEPT !.lines = Append(@, line)]
    /\ file0' = file'
    /\ UNCHANGED <<keystore, tokenBal, pc, call, attempts, nCalls, nSuccess, inp, ret>>

NextConfig ==
    \/ WriteLine(HandLedgerLine(Len(file.lines) + 1))
    \/ \E k \in JunkKinds : WriteLine([kind |-> k])
    \/ \E ok \in BOOLEAN : get_sweep_config(ok)
    \/ Return

SpecConfig == InitConfig /\ [][NextConfig]_vars

(* ---------------------- address strings, by character ------------------ *)
(* _validate_address on the string itself: a string is the sequence of its *)
(* characters, None a value of its own.                                    *)
HEX_DIGITS == 40         \* {40} of the pattern

None == <<"None">>

HexChars == {"0", "1", "2", "3", "4", "5", "6", "7", "8", "9",
             "a", "b", "c", "d", "e", "f", "A", "B", "C", "D", "E", "F"}

(* `$` without re.MULTILINE: the end of the string, or just before a       *)
(* newline that is the string's last character.                            *)
AtEnd(str, pos) ==
    \/ pos = Len(str) + 1
    \/ pos = Len(str) /\ str[pos] = "\n"

(* re.match(r"^0x[a-fA-F0-9]{40}$", str)                                   *)
re_match(str) ==
    /\ Len(str) >= 2 + HEX_DIGITS
    /\ str[1] = "0" /\ str[2] = "x"
    /\ \A i \in 3..(2 + HEX_DIGITS) : str[i] \in HexChars
    /\ AtEnd(str, 3 + HEX_DIGITS)

(* bool(re.match(..., addr or ""))                                         *)
ValidateString(addr) == re_match(IF addr = None THEN <<>> ELSE addr)

(* The strings tried: a prefix, a run of digits of 40 - MaxOff to          *)
(* 40 + MaxOff characters in one letter case or mixed, possibly with a     *)
(* foreign character at one end of the run, and a suffix.                  *)
Prefixes == {<<"0", "x">>, <<"0", "X">>, <<>>, <<" ", "0", "x">>, <<"\n", "0", "x">>}

Suffixes == {<<>>, <<"\n">>, <<" ">>, <<"\n", "\n">>, <<"\n", "a">>}

Fills == {<<"a">>, <<"F">>, <<"9">>, <<"a", "B", "0">>}

Run(n, fill) == [i \in 1..n |-> fill[((i - 1) % Len(fill)) + 1]]

Foreign == {"g", "x", " "}

Runs ==
    UNION {{Run(n, f)} \cup {[Run(n, f) EXCEPT ![p] = c] : p \in {1, n}, c \in Foreign} :
              n \in (HEX_DIGITS - MaxOff)..(HEX_DIGITS + MaxOff), f \in Fills}

AddressStrings ==
    {None, <<>>} \cup {p \o r \o x : p \in Prefixes, r \in Runs, x \in Suffixes}

(* One call of _validate_address.                                          *)
ValidateStep(addr) ==
    /\ pc = "idle"
    /\ inp' = [op |-> "_validate_address", addr |-> addr]
    /\ ret' = Result("_validate_address", ValidateString(addr))
    /\ pc' = "done"
    /\ UNCHANGED <<keystore, file, tokenBal, call, attempts, file0, nCalls, nSuccess>>

NextAddress ==
    \/ \E addr \in AddressStrings : ValidateStep(addr)
    \/ Return

SpecAddress == Init /\ [][NextAddress]_vars

(* ---------------------- _is_native_eth, by character ------------------- *)
Uppers == <<"A", "B", "C", "D", "E", "F", "H", "I", "N", "T", "V", "X">>

Lowers == <<"a", "b", "c", "d", "e", "f", "h", "i", "n", "t", "v", "x">>

Whitespace == {" ", "\n", "\t"}

(* str.lower() of one character                                            *)
lower_char(c) ==
    IF \E i \in 1..Len(Uppers) : Uppers[i] = c
    THEN Lowers[CHOOSE i \in 1..Len(Uppers) : Uppers[i] = c]
    ELSE c

upper_char(c) ==
    IF \E i \in 1..Len(Lowers) : Lowers[i] = c
    THEN Uppers[CHOOSE i \in 1..Len(Lowers) : Lowers[i] = c]
    ELSE c

str_lower_Identity(str) == str

(* str.lower()                                                             *)
str_lower(str) == [i \in 1..Len(str) |-> lower_char(str[i])]

(* str.strip(): whitespace removed at both ends                            *)
RECURSIVE str_strip(_)
str_strip(str) ==
    IF str = <<>> THEN <<>>
    ELSE IF Head(str) \in Whitespace THEN str_strip(Tail(str))
    ELSE IF str[Len(str)] \in Whitespace THEN str_strip(SubSeq(str, 1, Len(str) - 1))
    ELSE str

(* str.replace("0x", ""): every occurrence, left to right, not overlapping *)
RECURSIVE str_replace_0x(_)
str_replace_0x(str) ==
    IF Len(str) < 2 THEN str
    ELSE IF str[1] = "0" /\ str[2] = "x" THEN str_replace_0x(SubSeq(str, 3, Len(str)))
    ELSE <<str[1]>> \o str_replace_0x(Tail(str))

(* str.zfill(width): zeros on the left, after a leading sign               *)
zfill(str, width) ==
    IF Len(str) >= width THEN str
    ELSE IF str # <<>> /\ str[1] \in {"+", "-"}
         THEN <<str[1]>> \o Run(width - Len(str), <<"0">>) \o Tail(str)
         ELSE Run(width - Len(str), <<"0">>) \o str

NativeWords == {<<"e", "t", "h">>, <<"n", "a", "t", "i", "v", "e">>}

(* _is_native_eth on the string itself                                     *)
IsNativeString(addr) ==
    IF addr = None \/ addr = <<>> THEN FALSE
    ELSE LET a == str_lower(str_strip(addr))
         IN  IF a \in NativeWords THEN TRUE
             ELSE LET z == zfill(str_replace_0x(a), HEX_DIGITS)
                  IN  Len(z) = HEX_DIGITS /\ z = Run(HEX_DIGITS, <<"0">>)

(* The strings tried: the two words in every letter case, bare and padded  *)
(* with whitespace; runs of zeros of several lengths with and without a    *)
(* prefix; addresses with one non-zero digit at each position; and the     *)
(* strings of AddressStrings.                                              *)
CaseVariants(w) ==
    {[i \in 1..Len(w) |-> IF i \in S THEN upper_char(w[i]) ELSE w[i]] : S \in SUBSET (1..Len(w))}

WordStrings ==
    UNION {CaseVariants(w) \cup {<<" ">> \o v \o <<"\n">> : v \in CaseVariants(w)} : w \in NativeWords}

ZeroStrings ==
    {p \o Run(n, <<"0">>) : p \in {<<>>, <<"0", "x">>, <<"0", "X">>},
                            n \in {0, 1, HEX_DIGITS - 1, HEX_DIGITS, HEX_DIGITS + 1}}

OneDigitStrings ==
    {<<"0", "x">> \o [Run(HEX_DIGITS, <<"0">>) EXCEPT ![p] = c] :
        p \in 1..HEX_DIGITS, c \in {"1", "a", "F", "x"}}

NativeStrings == WordStrings \cup ZeroStrings \cup OneDigitStrings \cup AddressStrings

(* One call of _is_native_eth.                                             *)
NativeStep(addr) ==
    /\ pc = "idle"
    /\ inp' = [op |-> "_is_native_eth", addr |-> addr]
    /\ ret' = Result("_is_native_eth", IsNativeString(addr))
    /\ pc' = "done"
    /\ UNCHANGED <<keystore, file, tokenBal, call, attempts, file0, nCalls, nSuccess>>

NextNative ==
    \/ \E addr \in NativeStrings : NativeStep(addr)
    \/ Return

SpecNative == Init /\ [][NextNative]_vars

(* ---------------------- the reported amount, by character -------------- *)
(* A raw balance is units * 10^scale; the quotient amount_out / 10**decimals *)
(* is then n * 10^k with n = amount_out's units and k = scale - decimals.  *)
Digits == <<"0", "1", "2", "3", "4", "5", "6", "7", "8", "9">>

(* str(n) of an integer n >= 0                                             *)
RECURSIVE str_int(_)
str_int(n) == IF n < 10 THEN <<Digits[n + 1]>> ELSE str_int(n \div 10) \o <<Digits[(n % 10) + 1]>>

(* n * 10^k with the trailing zeros of n moved into the exponent           *)
RECURSIVE Normalised(_, _)
Normalised(n, k) == IF n # 0 /\ n % 10 = 0 THEN Normalised(n \div 10, k + 1) ELSE [n |-> n, k |-> k]

(* str(x) of the float x = n * 10^k (at most 15 significant digits, where  *)
(* the shortest round-trip digits are those of n): exponent notation when  *)
(* the decimal point lies 4 or more places left of the digits or more than *)
(* 16 places right of the first; otherwise fixed notation with at least    *)
(* one digit after the point.                                              *)
float_str(n, k) ==
    LET sign == IF n < 0 THEN <<"-">> ELSE <<>>
        v == Normalised(IF n < 0 THEN -n ELSE n, k)
        D == str_int(v.n)
        L == Len(D)
        decpt == L + v.k
        e == decpt - 1
        abs_e == IF e < 0 THEN -e ELSE e
    IN  IF n = 0 THEN <<"0", ".", "0">>
        ELSE IF decpt <= -4 \/ decpt > 16
             THEN sign \o <<D[1]>> \o (IF L > 1 THEN <<".">> \o Tail(D) ELSE <<>>)
                       \o <<"e", IF e < 0 THEN "-" ELSE "+">>
                       \o (IF abs_e < 10 THEN <<"0">> ELSE <<>>) \o str_int(abs_e)
        ELSE IF decpt <= 0 THEN sign \o <<"0", ".">> \o Run(-decpt, <<"0">>) \o D
        ELSE IF decpt < L THEN sign \o SubSeq(D, 1, decpt) \o <<".">> \o SubSeq(D, decpt + 1, L)
        ELSE sign \o D \o Run(decpt - L, <<"0">>) \o <<".", "0">>

SymbolChars == <<"C", "L", "A", "W">>

(* f"{amount_out_human} {symbol}" with amount_out = balance_after -        *)
(* balance_before and amount_out_human = amount_out / (10**decimals)       *)
amount_out_str(balance_before, balance_after, scale, decimals, symbol) ==
    float_str(balance_after - balance_before, scale - decimals) \o <<" ">> \o symbol

(* The balances tried, in units of 10^scale raw units.                     *)
Units == {0, 1, 5, 12, 50, 105, 1500, 5000, 12345}

Scales == {0, 12, 16, 18}

TokenDecimals == {0, 6, 18}

(* The amount computed and reported by one successful swap.                *)
ReportStep(balance_before, balance_after, scale, decimals) ==
    /\ pc = "idle"
    /\ inp' = [op |-> "amount_out", balance_before |-> balance_before,
               balance_after |-> balance_after, scale |-> scale, decimals |-> decimals]
    /\ ret' = Result("amount_out",
                     [amount_out |-> amount_out_str(balance_before, balance_after,
                                                    scale, decimals, SymbolChars)])
    /\ pc' = "done"
    /\ UNCHANGED <<keystore, file, tokenBal, call, attempts, file0, nCalls, nSuccess>>

NextReport ==
    \/ \E b \in Units, a \in Units, s \in Scales, d \in TokenDecimals : ReportStep(b, a, s, d)
    \/ Return

SpecReport == Init /\ [][NextReport]_vars

(* --------------------------- the wallet alone -------------------------- *)
(* create_wallet draws its key from secrets.token_hex(32): every call      *)
(* draws another one.                                                      *)
WalletKeys == {p.key : p \in KeyPairs}

NextWallet ==
    \/ \E key \in WalletKeys : create_wallet(key)
    \/ \E x \in WalletInputs : get_wallet(x.bal, x.f)
    \/ \E f \in {"load_private_key", "none"} : export_private_key(f)
    \/ Return

SpecWallet == Init /\ [][NextWallet]_vars

(* ------------------- send_money (core/bank/transfer.py) ---------------- *)
(* The Wise flow.  `attempts` is the list of HTTP requests made by the     *)
(* call, each with the answer it got; `call` holds the call's arguments.   *)
(* An answer is "ok" (200/201), "unauthorized" (401), "error" (another     *)
(* status), "network" (httpx raises instead of answering) and, for the     *)
(* funding request, "insufficient" (an error status whose errorCode names  *)
(* insufficient_funds), "rejected_insufficient" and "rejected_other" (200  *)
(* with status REJECTED and that errorCode, or another one).               *)
Request(method, path, answer) == [method |-> method, path |-> path, answer |-> answer]

Raise(cls, msg) == [op |-> "send_money", kind |-> "error", cls |-> cls, err |-> msg]

Currencies == {"USD", "EUR", "GBP"}

(* The recipient details given: for USD the routing number, the country    *)
(* and the address, otherwise whether the account looks like an IBAN.      *)
RecipientInputs ==
    {x \in [currency : Currencies, routing : BOOLEAN, country : BOOLEAN,
            address : BOOLEAN, iban : BOOLEAN] :
        /\ x.currency = "USD" => x.iban = FALSE
        /\ x.currency # "USD" => (x.routing /\ x.country /\ x.address)
        /\ ~x.routing => (x.country /\ x.address)
        /\ ~x.country => x.address}

ProfileAnswers == {"given", "ok", "error", "empty", "network"}

PostAnswers == {"ok", "unauthorized", "error", "network"}

GetAnswers == {"ok", "error", "network"}

FundAnswers == PostAnswers \cup {"insufficient", "rejected_insufficient", "rejected_other"}

(* Lines 185-257: the check of _create_recipient that fails before any     *)
(* request, or "" when the payload is built.                               *)
RecipientError(r) ==
    IF r.currency = "USD"
    THEN IF ~r.routing THEN "USD transfers require a recipient bank account"
         ELSE IF ~r.country THEN "USD ACH requires recipient address"
         ELSE IF ~r.address THEN "USD ACH requires full recipient address"
         ELSE ""
    ELSE IF r.currency = "EUR" \/ r.iban
    THEN IF ~r.iban THEN "EUR (and most non-USD currencies) require an IBAN" ELSE ""
    ELSE "Unsupported currency or recipient type"

(* What a step does with the answer to its request: the exception raised,  *)
(* or "" when the step returns.                                            *)
StepError(step, answer) ==
    IF answer = "network" THEN [cls |-> "httpx.HTTPError", msg |-> "network"]
    ELSE IF answer = "unauthorized" /\ step # "requirements"
    THEN [cls |-> "TransferError", msg |-> "Authentication failed"]
    ELSE IF answer \in {"insufficient", "rejected_insufficient"}
    THEN [cls |-> "InsufficientFundsError", msg |-> "Insufficient funds in source balance"]
    ELSE IF answer \in {"ok", "rejected_other"} THEN [cls |-> "", msg |-> ""]
    ELSE [cls |-> "TransferError", msg |-> step]

(* One step of send_money: the request is made and answered; the call      *)
(* raises or goes on to the next step.                                     *)
TransferStep(at, method, path, answer, next) ==
    /\ pc = at
    /\ attempts' = Append(attempts, Request(method, path, answer))
    /\ LET e == StepError(at, answer)
       IN IF e.cls # ""
          THEN /\ ret' = Raise(e.cls, e.msg)
               /\ pc' = "done"
          ELSE /\ pc' = next
               /\ ret' = ret
    /\ UNCHANGED <<keystore, file, tokenBal, call, file0, nCalls, nSuccess, inp>>

(* Line 64: resolve_profile_id returns the profile configured or asks the  *)
(* API for the profiles and takes the first.                               *)
send_money(recipient, profile) ==
    /\ pc = "idle"
    /\ inp' = [op |-> "send_money", recipient |-> recipient, profile |-> profile]
    /\ call' = recipient
    /\ attempts' = IF profile = "given" THEN <<>>
                   ELSE <<Request("GET", "/v2/profiles", profile)>>
    /\ IF profile \in {"given", "ok"}
       THEN pc' = "quote" /\ ret' = ret
       ELSE /\ pc' = "done"
            /\ ret' = IF profile = "network" THEN Raise("httpx.HTTPError", "network")
                      ELSE Raise("ProfileError", profile)
    /\ UNCHANGED <<keystore, file, tokenBal, file0, nCalls, nSuccess>>

_create_quote(answer) ==
    /\ pc = "quote"
    /\ TransferStep("quote", "POST", "/v3/profiles/quotes", answer, "requirements")

_get_account_requirements(answer) ==
    /\ pc = "requirements"
    /\ TransferStep("requirements", "GET", "/v1/account-requirements", answer, "recipient")

(* Lines 165-274: the details are checked, then the recipient is posted.   *)
_create_recipient(answer) ==
    /\ pc = "recipient"
    /\ IF RecipientError(call) # ""
       THEN /\ pc' = "done"
            /\ ret' = Raise("TransferError", RecipientError(call))
            /\ UNCHANGED <<keystore, file, tokenBal, call, attempts, file0, nCalls,
                           nSuccess, inp>>
       ELSE TransferStep("recipient", "POST", "/v1/accounts", answer, "transfer")

_create_transfer(answer) ==
    /\ pc = "transfer"
    /\ TransferStep("transfer", "POST", "/v1/transfers", answer, "fund")

(* Lines 98-108: the funding request, then the result is returned.         *)
_fund_transfer(answer) ==
    /\ TransferStep("fund", "POST", "/payments", answer, "done")
    /\ StepError("fund", answer).cls = "" =>
           ret' = Result("send_money", [id |-> "transfer", status |-> "processing"])

NextTransfer ==
    \/ \E r \in RecipientInputs, p \in ProfileAnswers : send_money(r, p)
    \/ \E a \in PostAnswers : _create_quote(a)
    \/ \E a \in GetAnswers : _get_account_requirements(a)
    \/ \E a \in PostAnswers : _create_recipient(a)
    \/ \E a \in PostAnswers : _create_transfer(a)
    \/ \E a \in FundAnswers : _fund_transfer(a)
    \/ Return

SpecTransfer == Init /\ [][NextTransfer]_vars

(* ------------------ the ledger line, written and parsed ---------------- *)
(* The line a successful swap appends (lines 404-407, 303-306) and what    *)
(* get_sweep_config makes of it (lines 156-172), character by character.   *)
LowerHex == <<"0", "1", "2", "3", "4", "5", "6", "7", "8", "9", "a", "b", "c", "d", "e", "f">>

(* bytes.hex(): two lower-case digits a byte                               *)
bytes_hex(b) ==
    [i \in 1..(2 * Len(b)) |->
        IF i % 2 = 1 THEN LowerHex[(b[(i + 1) \div 2] \div 16) + 1]
        ELSE LowerHex[(b[i \div 2] % 16) + 1]]

(* tx_hash_bytes.hex(): HexBytes.hex() puts "0x" in front in hexbytes      *)
(* before 1.0 and does not from 1.0 on; plain bytes never do.  The         *)
(* repository pins no version: `prefixed` is the outcome of the build.     *)
HexBytes_hex(b, prefixed) == (IF prefixed THEN <<"0", "x">> ELSE <<>>) \o bytes_hex(b)

(* datetime.now().strftime('%Y-%m-%d %H:%M:%S')                            *)
Timestamps ==
    {<<"2", "0", "2", "6", "-", "0", "2", "-", "1", "4", " ",
       "1", "2", ":", "0", "3", ":", "0", "0">>,
     <<"1", "9", "9", "9", "-", "1", "2", "-", "3", "1", " ",
       "2", "3", ":", "5", "9", ":", "5", "9">>}

(* f"{amount_eth} ETH"                                                     *)
amount_in_str(amount_eth) == float_str(amount_eth.n, amount_eth.k) \o <<" ", "E", "T", "H">>

(* The f-string of lines 404 and 303.                                      *)
log_line(ts, amount_in, amount_out, tx_hash) ==
    ts \o <<" ", "|", " ", "s", "p", "e", "n", "t", ":", " ">> \o amount_in
       \o <<" ", "|", " ", "b", "o", "u", "g", "h", "t", ":", " ">> \o amount_out
       \o <<" ", "|", " ", "t", "x", ":", " ">> \o tx_hash \o <<"\n">>

DecimalDigits == {Digits[i] : i \in 1..Len(Digits)}

(* \d{4}-\d{2}-\d{2} \d{2}:\d{2}:\d{2}                                     *)
IsTimestamp(str) ==
    /\ Len(str) = 19
    /\ \A i \in 1..19 :
          IF i \in {5, 8} THEN str[i] = "-"
          ELSE IF i = 11 THEN str[i] = " "
          ELSE IF i \in {14, 17} THEN str[i] = ":"
          ELSE str[i] \in DecimalDigits

StartsWith(str, prefix) ==
    Len(str) >= Len(prefix) /\ SubSeq(str, 1, Len(prefix)) = prefix

(* The position of the first "|" of str, 0 when there is none.             *)
FirstBar(str) ==
    IF \E i \in 1..Len(str) : str[i] = "|"
    THEN CHOOSE i \in 1..Len(str) : str[i] = "|" /\ \A j \in 1..(i - 1) : str[j] # "|"
    ELSE 0

(* [a-fA-F0-9]+ at the head of str: the longest run, <<>> when none.       *)
RECURSIVE HexRun(_)
HexRun(str) ==
    IF str # <<>> /\ Head(str) \in HexChars THEN <<Head(str)>> \o HexRun(Tail(str)) ELSE <<>>

(* A group ([^|]+) between a label and the " |" that follows it: the field *)
(* is the text between two bars; <<>> when the field does not match.       *)
Group(field, label) ==
    IF StartsWith(field, label) /\ Len(field) >= Len(label) + 2 /\ field[Len(field)] = " "
    THEN SubSeq(field, Len(label) + 1, Len(field) - 1)
    ELSE <<>>

(* Lines 156-172 on one line of the file: the entries appended to          *)
(* recent_sweeps, none when the pattern does not match.                    *)
parse_ledger_line(raw) ==
    LET line == str_strip(raw)
        b1 == FirstBar(line)
        r1 == SubSeq(line, b1 + 1, Len(line))
        b2 == FirstBar(r1)
        r2 == SubSeq(r1, b2 + 1, Len(r1))
        b3 == FirstBar(r2)
        r3 == SubSeq(r2, b3 + 1, Len(r2))
        f1 == SubSeq(line, 1, b1 - 1)
        spent == Group(SubSeq(r1, 1, b2 - 1), <<" ", "s", "p", "e", "n", "t", ":", " ">>)
        bought == Group(SubSeq(r2, 1, b3 - 1), <<" ", "b", "o", "u", "g", "h", "t", ":", " ">>)
        tx == IF StartsWith(r3, <<" ", "t", "x", ":", " ", "0", "x">>)
              THEN HexRun(SubSeq(r3, 8, Len(r3))) ELSE <<>>
    IN  IF /\ b1 > 0 /\ b2 > 0 /\ b3 > 0
           /\ f1 # <<>> /\ f1[Len(f1)] = " " /\ IsTimestamp(SubSeq(f1, 1, Len(f1) - 1))
           /\ spent # <<>> /\ bought # <<>> /\ tx # <<>>
        THEN <<[timestamp |-> SubSeq(f1, 1, Len(f1) - 1), spent |-> str_strip(spent),
                bought |-> str_strip(bought), tx_hash |-> <<"0", "x">> \o tx]>>
        ELSE <<>>

(* The amounts spent, as n * 10^k.                                         *)
EthAmounts == {[n |-> 1, k |-> -1], [n |-> 25, k |-> -2], [n |-> 1, k |-> -5]}

(* The amounts bought, in units of 10^18 raw units of an 18-decimals token. *)
BoughtUnits == {0, 1, 5000, 12345}

Symbols == {SymbolChars, <<"W", "|", "X">>}

TxHashes == {<<171, 205>>, <<0, 1, 2>>, <<255, 16, 9, 160>>}

(* A successful swap writes its line and returns; get_sweep_config then    *)
(* reads the line back.                                                    *)
LedgerStep(ts, amount_eth, bought, symbol, hash, prefixed) ==
    /\ pc = "idle"
    /\ inp' = [op |-> "ledger", ts |-> ts, amount_eth |-> amount_eth, bought |-> bought,
               symbol |-> symbol, hash |-> hash, prefixed |-> prefixed]
    /\ LET tx_hash == HexBytes_hex(hash, prefixed)
           amount_in == amount_in_str(amount_eth)
           amount_out == amount_out_str(0, bought, 18, 18, symbol)
       IN ret' = Result("ledger",
                        [tx_hash |-> tx_hash, amount_in |-> amount_in,
                         amount_out |-> amount_out,
                         recent_sweeps |->
                             parse_ledger_line(log_line(ts, amount_in, amount_out, tx_hash))])
    /\ pc' = "done"
    /\ UNCHANGED <<keystore, file, tokenBal, call, attempts, file0, nCalls, nSuccess>>

NextLedger ==
    \/ \E ts \in Timestamps, a \in EthAmounts, b \in BoughtUnits, sym \in Symbols,
          h \in TxHashes, prefixed \in BOOLEAN : LedgerStep(ts, a, b, sym, h, prefixed)
    \/ Return

SpecLedger == Init /\ [][NextLedger]_vars

(* ============================== claims ================================= *)
BuyEnded == pc = "done" /\ ret.op = "buy_token"

BuyFailed == BuyEnded /\ ret.kind = "error"

BuyReturned == BuyEnded /\ ret.kind = "result"

IsPrefix(a, b) == Len(a) <= Len(b) /\ SubSeq(b, 1, Len(a)) = a

(* The lines the running operation has added at the end of sweep.config.   *)
Appended == SubSeq(file.lines, Len(file0.lines) + 1, Len(file.lines))

LastAttempt == attempts[Len(attempts)]

(* C1: whenever buy_token ends in an error, no ledger line was appended    *)
(* during the call and no transaction of the call has a success receipt.   *)
C1_NoPartialCommit ==
    BuyFailed =>
        /\ LedgerLines(file) = LedgerLines(file0)
        /\ \A i \in DOMAIN attempts : attempts[i].receipt # "success"

(* C2: whenever buy_token returns a result, exactly one ledger line was    *)
(* appended during the call, it carries the returned transaction hash,     *)
(* that transaction's receipt status was success and the result's status   *)
(* is "confirmed".                                                         *)
C2_ResultHasOneLedgerLine ==
    BuyReturned =>
        /\ IsPrefix(file0.lines, file.lines)
        /\ Len(Appended) = 1
        /\ IsLedger(Appended[1])
        /\ Appended[1].tx = ret.val.tx_hash
        /\ \E i \in DOMAIN attempts :
              /\ attempts[i].tx = ret.val.tx_hash.seq
              /\ attempts[i].receipt = "success"
        /\ ret.val.status = "confirmed"

C2_Witness ==
    /\ BuyReturned
    /\ LastAttempt.route = "B"
    /\ \E i \in DOMAIN attempts : attempts[i].route = "A" /\ attempts[i].receipt = "failed"

(* C3: the ledger is append-only: the ledger lines the file held when an   *)
(* operation began are still there, in place, whatever the operation did.  *)
C3_LedgerAppendOnly == IsPrefix(LedgerLines(file0), LedgerLines(file))

(* C4: after N successful buy_token calls the file holds exactly N ledger  *)
(* lines in addition to the two header lines.                              *)
C4_OneLinePerSwap ==
    pc \in {"idle", "done"} =>
        /\ Len(LedgerLines(file)) = nSuccess
        /\ nSuccess > 0 => Len(file.lines) = 2 + nSuccess

TargetOf(f) == ParseConfig(f, TRUE).target_token

(* The line names the token: its target line or a purchase of it.          *)
Mentions(line, hex) ==
    \/ line.kind = "kv" /\ line.k = "target" /\ line.v.hex = hex
    \/ line.kind = "ledger" /\ line.bought.sym = SymbolOf(hex)

SetTargetSucceeded ==
    pc = "done" /\ ret.op = "set_target_token" /\ ret.kind = "result"

(* C5: a successful set_target_token(T2) on a file whose target was a      *)
(* different token T1 leaves T2 as the target get_sweep_config reports     *)
(* and no line of the file that names T1.                                  *)
C5_SecondTargetOnly ==
    (SetTargetSucceeded /\ TargetOf(file0) \notin {NoAddr, ret.val.token_address}) =>
        /\ TargetOf(file) = ret.val.token_address
        /\ TargetOf(file) = checksum(inp.token_address)
        /\ \A i \in DOMAIN file.lines : ~Mentions(file.lines[i], TargetOf(file0).hex)

C5_Witness ==
    /\ SetTargetSucceeded
    /\ TargetOf(file0) \notin {NoAddr, ret.val.token_address}
    /\ inp.token_address.form = "lower"
    /\ LedgerLines(file0) # <<>>

(* C6: set_target_token writes the file only when the address passed the   *)
(* format check and symbol() answered; a failed format check raises        *)
(* "Invalid token address", a failed symbol() raises "Invalid token at",   *)
(* and both leave the file exactly as it was.                              *)
C6_CommitAfterValidation ==
    (pc = "done" /\ ret.op = "set_target_token") =>
        /\ ~_validate_address(inp.token_address) =>
              (ret.kind = "error" /\ ret.err = "Invalid token address" /\ file = file0)
        /\ (_validate_address(inp.token_address) /\ ~inp.symbolOk) =>
              (ret.kind = "error" /\ ret.err = "Invalid token at" /\ file = file0)
        /\ file # file0 => (_validate_address(inp.token_address) /\ inp.symbolOk)

C6_Witness ==
    /\ pc = "done" /\ ret.op = "set_target_token" /\ ret.kind = "error"
    /\ _validate_address(inp.token_address) /\ ~inp.symbolOk
    /\ TargetOf(file0) # NoAddr
    /\ TargetOf(file0).hex # inp.token_address.hex
    /\ LedgerLines(file0) # <<>>

(* Route A ran its three tiers and gas estimation failed on each.          *)
AllEstimatesFailed ==
    /\ Len(attempts) >= Len(fee_tiers)
    /\ \A i \in 1..Len(fee_tiers) :
          attempts[i].route = "A" /\ attempts[i].fault = "estimate"

LiquidityError == BuyFailed /\ ret.err = "No liquidity pool found"

(* C7 as stated: if gas estimation fails for all three fee tiers,          *)
(* buy_token reports the Liquidity error and submits no transaction.       *)
C7_AllTiersFailMeansLiquidityError ==
    (BuyEnded /\ AllEstimatesFailed) =>
        (LiquidityError /\ NumSubmitted(attempts) = 0)

(* C7 amended: if gas estimation fails for all three fee tiers and the     *)
(* target is not the hardcoded fallback token, buy_token reports the       *)
(* Liquidity error and submits no transaction.                             *)
C7_AllTiersFailNoFallback ==
    (BuyEnded /\ AllEstimatesFailed /\ call.target.hex # ClawHex) =>
        (LiquidityError /\ NumSubmitted(attempts) = 0)

C7_Witness ==
    BuyEnded /\ AllEstimatesFailed /\ call.target.hex # ClawHex

RouteA == {i \in DOMAIN attempts : attempts[i].route = "A"}

RouteB == {i \in DOMAIN attempts : attempts[i].route = "B"}

(* C8: Route B runs only after Route A went through all its tiers without  *)
(* returning and only for the fallback token; for any other target whose   *)
(* Route A is exhausted the call ends in the Liquidity error and Route B   *)
(* never runs.                                                             *)
C8_FallbackOnlyForClawbank ==
    /\ (pc = "v4" \/ RouteB # {}) =>
          /\ call.target.hex = ClawHex
          /\ RouteA = 1..Len(fee_tiers)
          /\ \A i \in RouteB : i > Len(fee_tiers)
          /\ file = file0 \/ (BuyReturned /\ LastAttempt.route = "B")
    /\ (BuyEnded /\ Cardinality(RouteA) = Len(fee_tiers) /\ ~BuyReturned
           /\ call.target.hex # ClawHex) =>
          (LiquidityError /\ RouteB = {})

C8_Witness ==
    /\ BuyEnded
    /\ RouteB # {}
    /\ attempts[1].fault = "estimate"

(* C9: in Route A a tier whose estimation succeeded but whose receipt      *)
(* reports failure writes no ledger line and is followed by the next tier; *)
(* when a later tier succeeds, the result and the single ledger line are   *)
(* that later tier's.                                                      *)
C9_RevertedTierFallsThrough ==
    \A i \in RouteA : attempts[i].fault = "reverted" =>
        /\ \A k \in DOMAIN file.lines :
              IsLedger(file.lines[k]) =>
                  file.lines[k].tx # [call |-> nCalls, seq |-> attempts[i].tx]
        /\ (Len(attempts) = i /\ i < Len(fee_tiers)) =>
              (pc = "v3" /\ call.tier = i + 1 /\ file = file0)
        /\ (BuyReturned /\ LastAttempt.route = "A") =>
              /\ Len(attempts) > i
              /\ LastAttempt.fee = fee_tiers[Len(attempts)]
              /\ ret.val.tx_hash = [call |-> nCalls, seq |-> LastAttempt.tx]
              /\ Len(Appended) = 1
              /\ Appended[1].tx = ret.val.tx_hash
              /\ Appended[1].bought = ret.val.amount_out
              /\ ret.val.amount_out.raw = tokenBal[call.target.hex] - call.balance_before

C9_Witness ==
    /\ BuyReturned
    /\ Len(attempts) = 2
    /\ attempts[1].route = "A" /\ attempts[1].fault = "reverted"
    /\ attempts[2].route = "A" /\ attempts[2].fee = 3000

(* C10: Route A tries the tiers in the order 500, 3000, 10000 and stops at *)
(* the first tier whose transaction gets a success receipt: nothing is     *)
(* estimated or submitted after it.                                        *)
C10_StopsAtFirstSuccess ==
    /\ \A i \in RouteA : attempts[i].fee = fee_tiers[i]
    /\ \A i \in RouteA : attempts[i].receipt = "success" =>
          (i = Len(attempts) /\ pc = "done")

(* The running buy_token call stopped before Route A, with its inputs on   *)
(* record.                                                                 *)
BuyRefused == BuyFailed /\ attempts = <<>> /\ call = NoCall

WalletRead == keystore # NoKey /\ inp.fault # "get_wallet"

(* C11 as stated: buy_token fails with the error of the first violated     *)
(* precondition in the order target configured, amount positive, balance   *)
(* minus reserve at least the amount, whatever the later ones are.         *)
C11_PreconditionOrder ==
    BuyRefused =>
        /\ TargetOf(file0) = NoAddr => ret.err = "No target token set"
        /\ (TargetOf(file0) # NoAddr /\ inp.amount_eth <= 0) =>
              ret.err = "Amount must be greater than zero"
        /\ (TargetOf(file0) # NoAddr /\ inp.amount_eth > 0
               /\ inp.amount_eth > inp.balance_eth - GAS_RESERVE_ETH) =>
              ret.err = "Insufficient balance"

(* C11 amended: the same order holds when get_wallet returns; with a       *)
(* target configured, a failure of get_wallet is raised before the amount  *)
(* and the balance are looked at.                                          *)
C11_PreconditionOrderAfterWallet ==
    BuyRefused =>
        /\ TargetOf(file0) = NoAddr => ret.err = "No target token set"
        /\ (TargetOf(file0) # NoAddr /\ ~WalletRead) =>
              ret.err \in {"Wallet does not exist", "get_wallet"}
        /\ (TargetOf(file0) # NoAddr /\ WalletRead /\ inp.amount_eth <= 0) =>
              ret.err = "Amount must be greater than zero"
        /\ (TargetOf(file0) # NoAddr /\ WalletRead /\ inp.amount_eth > 0
               /\ inp.amount_eth > inp.balance_eth - GAS_RESERVE_ETH) =>
              ret.err = "Insufficient balance"

C11_Witness ==
    /\ BuyRefused
    /\ TargetOf(file0) # NoAddr /\ WalletRead
    /\ inp.amount_eth <= 0
    /\ inp.amount_eth > inp.balance_eth - GAS_RESERVE_ETH
    /\ ret.err = "Amount must be greater than zero"

(* C12: when the amount exceeds the native balance minus the gas reserve,  *)
(* buy_token raises the Balance error and writes nothing: no transaction   *)
(* is signed or submitted, no ledger line is written.  Conversely the      *)
(* Balance error is raised for no other reason.                            *)
C12_InsufficientBalanceNoWrites ==
    /\ (BuyRefused /\ TargetOf(file0) # NoAddr /\ WalletRead /\ inp.amount_eth > 0
           /\ inp.amount_eth > inp.balance_eth - GAS_RESERVE_ETH) =>
          ret.err = "Insufficient balance"
    /\ (BuyFailed /\ ret.err = "Insufficient balance") =>
          /\ inp.amount_eth > inp.balance_eth - GAS_RESERVE_ETH
          /\ attempts = <<>>
          /\ file = file0
    /\ (pc \in {"v3", "v4"} \/ (BuyEnded /\ attempts # <<>>)) =>
          call.amount_eth <= call.balance_eth - GAS_RESERVE_ETH

C12_Witness ==
    /\ BuyFailed /\ ret.err = "Insufficient balance"
    /\ inp.amount_eth = 1 /\ inp.balance_eth = GAS_RESERVE_ETH
    /\ LedgerLines(file0) = <<>>

(* C13: Route B makes one attempt, outside the fee tiers, and it is the    *)
(* last thing the call does; when its receipt reports failure the call     *)
(* raises "Transaction failed", no ledger line is written and no further   *)
(* transaction is submitted.                                               *)
C13_RouteBRevertIsFatal ==
    /\ Cardinality(RouteB) <= 1
    /\ \A i \in RouteB :
          /\ i = Len(attempts) /\ pc = "done"
          /\ attempts[i].fee \notin {fee_tiers[k] : k \in DOMAIN fee_tiers}
          /\ attempts[i].fault = "reverted" =>
                /\ BuyFailed /\ ret.err = "Transaction failed"
                /\ file = file0
                /\ NumSubmitted(attempts) = attempts[i].tx

C13_Witness ==
    /\ BuyFailed /\ ret.err = "Transaction failed"
    /\ LastAttempt.route = "B" /\ LastAttempt.fault = "reverted"
    /\ LastAttempt.tx = 2

(* The stages of a swap attempt the propagation policy names.              *)
PolicyStages == {"submit", "wait", "record"}

(* C14: when wait_for_transaction_receipt raised for a transaction the     *)
(* call submitted, the call ends in a failure and submitted no further     *)
(* transaction after that one.                                             *)
C14_NoSubmissionAfterUnknownOutcome ==
    BuyEnded =>
        \A i \in DOMAIN attempts : attempts[i].fault = "wait" =>
            /\ BuyFailed
            /\ \A j \in DOMAIN attempts : j > i => attempts[j].tx = 0

(* C15: a failure of signing, sending, the receipt wait, the balance read  *)
(* or the ledger write ends the call with that failure's own error, a      *)
(* failed receipt in Route B with "Transaction failed"; nothing is tried   *)
(* after it, and the Liquidity error comes only from tiers that failed     *)
(* gas estimation or were reverted.                                        *)
C15_ErrorsPropagateUnmodified ==
    BuyEnded =>
        /\ \A i \in DOMAIN attempts : attempts[i].fault \in PolicyStages =>
              (i = Len(attempts) /\ BuyFailed /\ Stage(ret.err) = attempts[i].fault)
        /\ \A i \in RouteB : attempts[i].fault = "reverted" =>
              (BuyFailed /\ ret.err = "Transaction failed")
        /\ LiquidityError =>
              \A i \in DOMAIN attempts : attempts[i].fault \in {"estimate", "reverted"}

(* C16: whatever a core operation returned or raised, the MCP tool around  *)
(* it hands its caller a payload with success = true (exactly when the     *)
(* operation returned) or {success: false, error: message} carrying the    *)
(* error's message; no exception reaches the caller.                       *)
C16_ToolsNeverRaise ==
    pc = "done" =>
        LET out == McpTool(ret) IN
        /\ "success" \in DOMAIN out
        /\ out.success => (ret.kind = "result" /\ out.payload = ret.val)
        /\ ~out.success =>
              (ret.kind = "error" /\ DOMAIN out = {"success", "error"}
                 /\ out.error = ret.err)

C16_Witness ==
    /\ BuyFailed
    /\ ExceptionClass(ret.err) = "Exception"
    /\ attempts # <<>>
    /\ LastAttempt.route = "B" /\ LastAttempt.tx # 0
    /\ ~McpTool(ret).success

ConfigReturned == pc = "done" /\ ret.op = "get_sweep_config" /\ ret.kind = "result"

(* C17: get_sweep_config returns at most 10 entries: the last 10 ledger    *)
(* lines of the file, all of them when there are fewer, in file order.     *)
C17_LastTenInFileOrder ==
    ConfigReturned =>
        LET sweeps == ret.val.recent_sweeps
            ledger == LedgerLines(file)
            skipped == Len(ledger) - Len(sweeps)
        IN /\ Len(sweeps) <= 10
           /\ Len(sweeps) = IF Len(ledger) < 10 THEN Len(ledger) ELSE 10
           /\ \A i \in DOMAIN sweeps :
                 /\ sweeps[i].tx_hash = ledger[skipped + i].tx
                 /\ sweeps[i].timestamp = ledger[skipped + i].ts
                 /\ sweeps[i].spent = ledger[skipped + i].spent
                 /\ sweeps[i].bought = ledger[skipped + i].bought

C17_Witness ==
    /\ ConfigReturned
    /\ Len(LedgerLines(file)) > 10
    /\ Len(ret.val.recent_sweeps) = 10
    /\ \E i \in DOMAIN file.lines : IsJunk(file.lines[i])

(* The file without the lines of neither grammar.                          *)
WithoutJunk(f) == [f EXCEPT !.lines = SelectSeq(f.lines, LAMBDA l : ~IsJunk(l))]

(* C18: a line that is neither key=value nor a ledger line is skipped:     *)
(* get_sweep_config returns, and returns what it returns for the file      *)
(* without such lines.                                                     *)
C18_JunkLinesSkipped ==
    (pc = "done" /\ ret.op = "get_sweep_config") =>
        /\ ret.kind = "result"
        /\ ret.val = ParseConfig(WithoutJunk(file), inp.symbolOk)
        /\ ret.val.target_token = TargetOf(WithoutJunk(file))

C18_Witness ==
    /\ ConfigReturned
    /\ \E i \in DOMAIN file.lines :
          /\ file.lines[i].kind = "junk"
          /\ \E j, k \in DOMAIN file.lines :
                j < i /\ i < k /\ IsLedger(file.lines[j]) /\ IsLedger(file.lines[k])
    /\ ret.val.target_token # NoAddr

(* C19: when symbol() raises, get_sweep_config still returns the target,   *)
(* the network and the recent sweeps it returns otherwise, with            *)
(* token_symbol null.                                                      *)
C19_SymbolFailureIsNotAnError ==
    (pc = "done" /\ ret.op = "get_sweep_config" /\ ~inp.symbolOk) =>
        /\ ret.kind = "result"
        /\ ret.val.token_symbol = NoSymbol
        /\ ret.val.target_token = ParseConfig(file, TRUE).target_token
        /\ ret.val.network = ParseConfig(file, TRUE).network
        /\ ret.val.recent_sweeps = ParseConfig(file, TRUE).recent_sweeps

C19_Witness ==
    /\ ConfigReturned /\ ~inp.symbolOk
    /\ ret.val.target_token # NoAddr
    /\ ret.val.recent_sweeps # <<>>

(* "0x" followed by exactly 40 hexadecimal characters, and nothing else.   *)
IsAddressString(str) ==
    /\ str # None
    /\ Len(str) = 2 + HEX_DIGITS
    /\ str[1] = "0" /\ str[2] = "x"
    /\ \A i \in 3..Len(str) : str[i] \in HexChars

(* C20: _validate_address returns true exactly for the strings made of     *)
(* 0x and 40 hexadecimal characters in any letter case, false for every    *)
(* other string, a trailing newline, the empty string and None included.   *)
C20_ValidatesExactlyAddresses ==
    (pc = "done" /\ ret.op = "_validate_address") =>
        (ret.val <=> IsAddressString(inp.addr))

(* The word in some letter case: each character is the word's, in lower or *)
(* in upper case.                                                          *)
LetterCases ==
    {<<"e", "E">>, <<"t", "T">>, <<"h", "H">>, <<"n", "N">>,
     <<"a", "A">>, <<"i", "I">>, <<"v", "V">>}

IsWordInAnyCase(str, w) ==
    /\ str # None
    /\ Len(str) = Len(w)
    /\ \A i \in 1..Len(w) : str[i] = w[i] \/ <<w[i], str[i]>> \in LetterCases

NativeReturned == pc = "done" /\ ret.op = "_is_native_eth"

(* C21: _is_native_eth returns true for "eth" and "native" in any letter   *)
(* case and for 0x followed by forty zeros, and false for every valid      *)
(* token address with at least one non-zero hexadecimal digit.             *)
C21_NativeExactlyWordsAndZero ==
    NativeReturned =>
        /\ (\/ IsWordInAnyCase(inp.addr, <<"e", "t", "h">>)
            \/ IsWordInAnyCase(inp.addr, <<"n", "a", "t", "i", "v", "e">>)
            \/ inp.addr = <<"0", "x">> \o [i \in 1..HEX_DIGITS |-> "0"])
           => ret.val
        /\ (IsAddressString(inp.addr) /\ \E i \in 3..(2 + HEX_DIGITS) : inp.addr[i] # "0")
           => ~ret.val

C21_Witness ==
    /\ NativeReturned
    /\ inp.addr = <<"N", "a", "T", "i", "v", "E">>
    /\ ret.val

(* C22: with token balance 0 before and 5000 * 10^18 raw units after a     *)
(* successful swap of an 18-decimals token, the amount part of amount_out  *)
(* is exactly "5000", with no trailing zeros or decimal point, and the     *)
(* token symbol follows.                                                   *)
C22_WholeAmountIsBare ==
    (/\ pc = "done" /\ ret.op = "amount_out"
     /\ inp.balance_before = 0 /\ inp.balance_after = 5000
     /\ inp.scale = 18 /\ inp.decimals = 18)
    => ret.val.amount_out = <<"5", "0", "0", "0", " ">> \o SymbolChars

(* What must stay inside the wallet module.                                *)
Secrets == {keystore, DEFAULT_PASSWORD} \ {NoKey}

PublicOps == {"create_wallet", "get_wallet", "set_target_token", "get_sweep_config",
              "get_token_balance", "buy_token", "send_token"}

SendReturned == pc = "done" /\ ret.op = "send_token"

(* 0x and 40 hexadecimal characters, nothing else.                         *)
WellFormed(addr) == addr.form \in {"lower", "checksum"}

(* C24: send_token rejects a non-positive amount ("Amount must be greater  *)
(* than zero") and a malformed recipient ("Invalid recipient address")     *)
(* whatever the wallet and the chain would answer, rejects a token amount  *)
(* above the token balance held, and submits no transaction in any of the  *)
(* three cases.                                                            *)
C24_SendRejectsBeforeAccess ==
    SendReturned =>
        /\ inp.amount <= 0 =>
               /\ ret = Error("send_token", "Amount must be greater than zero")
               /\ attempts = <<>>
        /\ (inp.amount > 0 /\ ~WellFormed(inp.to_address)) =>
               /\ ret = Error("send_token", "Invalid recipient address")
               /\ attempts = <<>>
        /\ (/\ inp.amount > 0
            /\ WellFormed(inp.to_address)
            /\ WellFormed(inp.token_address) /\ ~_is_native_eth(inp.token_address)
            /\ inp.amount > tokenBal[inp.token_address.hex]) =>
               /\ ret.kind = "error"
               /\ attempts = <<>>
               /\ ret.err \in {"Insufficient token balance", "symbol", "token_info",
                               "Wallet does not exist", "get_wallet", "load_private_key"}

CreateStep == pc = "idle" /\ pc' = "done" /\ ret'.op = "create_wallet"

(* C25: create_wallet is a no-op once a wallet exists: a call made when    *)
(* wallet.json exists leaves the keystore as it is and returns the address *)
(* of the key stored, which is the address the first call returned.        *)
C25_CreateWalletIdempotent ==
    [][CreateStep =>
          /\ ret'.kind = "result"
          /\ ret'.val.address = AddressOf(keystore')
          /\ keystore # NoKey => keystore' = keystore]_vars

(* A second call that drew another key than the one stored.                *)
C25_Witness ==
    /\ pc = "done" /\ ret.op = "create_wallet"
    /\ keystore # NoKey
    /\ inp.key # keystore

(* The requests of the five steps, in order.                               *)
StepPaths == <<"/v3/profiles/quotes", "/v1/account-requirements", "/v1/accounts",
               "/v1/transfers", "/payments">>

(* The requests made by the call after the profile was resolved.           *)
StepRequests ==
    IF attempts # <<>> /\ attempts[1].path = "/v2/profiles" THEN Tail(attempts) ELSE attempts

Failed(request) == request.answer # "ok"

InTransfer == pc \in {"quote", "requirements", "recipient", "transfer", "fund"}
                 \/ (pc = "done" /\ ret.op = "send_money")

Estimated(as) ==
    {i \in 1..Len(as) : as[i].route = "A" /\ as[i].fault \notin {"build", "estimate"}}

(* C27: Route A signs and submits a transaction for a fee tier only after  *)
(* estimate_gas succeeded in the same iteration; after a failed estimation *)
(* nothing is submitted or logged for the tier and the next tier is tried, *)
(* so the transactions submitted never outnumber the estimations that      *)
(* succeeded.                                                              *)
C27_SubmitOnlyAfterEstimate ==
    /\ \A i \in 1..Len(attempts) : attempts[i].route = "A" =>
          /\ attempts[i].tx # 0 => i \in Estimated(attempts)
          /\ attempts[i].fault = "estimate" =>
                /\ attempts[i].tx = 0
                /\ attempts[i].receipt = "none"
                /\ ~attempts[i].mined
                /\ i < Len(attempts) =>
                      \/ attempts[i + 1].route = "B"
                      \/ /\ i < Len(fee_tiers)
                         /\ attempts[i + 1].fee = fee_tiers[i + 1]
                /\ (i = Len(attempts) /\ i < Len(fee_tiers)) =>
                      (pc = "v3" /\ call.tier = i + 1 /\ file = file0)
    /\ Cardinality({i \in 1..Len(attempts) : attempts[i].route = "A" /\ attempts[i].tx # 0})
           <= Cardinality(Estimated(attempts))
    /\ \A k \in 1..Len(file.lines) : IsLedger(file.lines[k]) => file.lines[k].tx.seq # 0

(* A tier whose estimation failed, then a tier that was submitted.         *)
C27_Witness ==
    /\ Len(attempts) >= 2
    /\ attempts[1].route = "A" /\ attempts[1].fault = "estimate"
    /\ attempts[2].route = "A" /\ attempts[2].tx # 0

(* C28: the amountOut a successful buy_token reports and logs is the       *)
(* target-token balance read after the success receipt minus the balance   *)
(* held when the successful attempt was submitted: what arrived before     *)
(* that attempt, during earlier failed tiers included, is not counted.     *)
C28_AmountOutIsAttemptDelta ==
    [][(pc \in {"v3", "v4"} /\ pc' = "done" /\ ret'.kind = "result") =>
          /\ ret'.val.amount_out.raw
                 = tokenBal'[call.target.hex] - tokenBal[call.target.hex]
          /\ file'.lines[Len(file'.lines)].bought.raw = ret'.val.amount_out.raw]_vars

Confirmed(as) == {i \in 1..Len(as) : as[i].receipt = "success"}

(* C29: in one buy_token call at most one submitted transaction receives a *)
(* success receipt, and once a transaction of the call is confirmed no     *)
(* further transaction is submitted, whether the balance read and the      *)
(* ledger write that follow succeed or fail.                               *)
C29_OneConfirmedSwapPerCall ==
    (pc \in {"v3", "v4"} \/ BuyEnded) =>
        /\ Cardinality(Confirmed(attempts)) <= 1
        /\ \A i \in Confirmed(attempts) : \A j \in 1..Len(attempts) :
               j > i => attempts[j].tx = 0

(* C30: the line a successful buy_token writes is read back by             *)
(* get_sweep_config as one recent_sweeps entry whose tx_hash, spent and    *)
(* bought are the tx_hash, amount_in and amount_out the call returned.     *)
C30_LedgerRoundTrip ==
    (pc = "done" /\ ret.op = "ledger") =>
        /\ Len(ret.val.recent_sweeps) = 1
        /\ ret.val.recent_sweeps[1].tx_hash = ret.val.tx_hash
        /\ ret.val.recent_sweeps[1].spent = ret.val.amount_in
        /\ ret.val.recent_sweeps[1].bought = ret.val.amount_out

====
